---- MODULE Spec2Model ----
(***************************************************************************)
(* hugetop (uutils procps): src/uu/hugetop/src/hugetop.rs.                 *)
(*                                                                         *)
(* One run of uumain: read the huge-page pool directory                    *)
(* (parse_hugepage), enumerate /proc (parse_process_hugepages, which calls *)
(* parse_process_info per entry), render (construct_str) and print.        *)
(*                                                                         *)
(* Text is a sequence of one-character strings; the string operations the  *)
(* code uses (trim, split, nth, replace, parse, lines) are operators over  *)
(* such sequences.  Rendered output is a sequence of tokens: literal       *)
(* pieces of the format strings, numbers, and text fields with their       *)
(* padding width.  A Result is a record with kind "Ok", "Err" or "Panic"   *)
(* ("Panic" is the unwinding of a Rust panic out of the function).         *)
(***************************************************************************)
EXTENDS Integers, Sequences, FiniteSets

VARIABLES
    hugepages_fs,   \* /sys/kernel/mm/hugepages as the run finds it
    proc_fs,        \* /proc as the run finds it
    pc,             \* position of uumain
    sys_info,       \* result of parse_hugepage()
    proc_iter,      \* parse_process_hugepages: index of the next /proc entry
    processes,      \* parse_process_hugepages: the vector being built
    p_info,         \* result of parse_process_hugepages()
    stdout,         \* sequence of writes to standard output
    stderr,         \* sequence of diagnostics written to standard error
    exit_status     \* process exit status, -1 while running

vars == << hugepages_fs, proc_fs, pc, sys_info, proc_iter, processes, p_info,
           stdout, stderr, exit_status >>

----------------------------------------------------------------------------
(* Bounds of the model. *)

\* longest pool directory listing
MaxDirs == 2
\* longest /proc listing
MaxProcs == 2
\* most mappings in one smaps file
MaxEntries == 2

----------------------------------------------------------------------------
(* Text helpers: the std string operations the code calls. *)

Digits == {"0", "1", "2", "3", "4", "5", "6", "7", "8", "9"}

Whitespace == {" ", "\t", "\n"}

DigitVal(c) ==
    CASE c = "0" -> 0 [] c = "1" -> 1 [] c = "2" -> 2 [] c = "3" -> 3
      [] c = "4" -> 4 [] c = "5" -> 5 [] c = "6" -> 6 [] c = "7" -> 7
      [] c = "8" -> 8 [] c = "9" -> 9

RECURSIVE DecimalValue(_)
\* value of a non-empty all-digit text
DecimalValue(s) ==
    IF s = << >> THEN 0
    ELSE 10 * DecimalValue(SubSeq(s, 1, Len(s) - 1)) + DigitVal(s[Len(s)])

AllDigits(s) == s # << >> /\ \A i \in 1..Len(s) : s[i] \in Digits

\* str::parse::<u64>() / ::<u32>(): an optional leading '+', then one or
\* more digits; anything else (empty, sign only, '-', letters, blanks) is Err.
parse_unsigned(s) ==
    LET body == IF s # << >> /\ s[1] = "+" THEN Tail(s) ELSE s
    IN  IF AllDigits(body)
        THEN [ok |-> TRUE, val |-> DecimalValue(body)]
        ELSE [ok |-> FALSE, val |-> 0]

RECURSIVE TrimStart(_)
TrimStart(s) ==
    IF s # << >> /\ s[1] \in Whitespace THEN TrimStart(Tail(s)) ELSE s

RECURSIVE TrimEnd(_)
TrimEnd(s) ==
    IF s # << >> /\ s[Len(s)] \in Whitespace
    THEN TrimEnd(SubSeq(s, 1, Len(s) - 1))
    ELSE s

\* str::trim()
Trim(s) == TrimEnd(TrimStart(s))

RECURSIVE SplitAcc(_, _, _)
SplitAcc(s, sep, cur) ==
    IF s = << >> THEN << cur >>
    ELSE IF s[1] = sep THEN << cur >> \o SplitAcc(Tail(s), sep, << >>)
    ELSE SplitAcc(Tail(s), sep, Append(cur, s[1]))

\* str::split(sep).collect(): the pieces between occurrences of sep
Split(s, sep) == SplitAcc(s, sep, << >>)

\* Iterator::nth(n), n counted from 0
Nth(pieces, n) ==
    IF n + 1 <= Len(pieces)
    THEN [some |-> TRUE, val |-> pieces[n + 1]]
    ELSE [some |-> FALSE, val |-> << >>]

RECURSIVE RemoveKB(_)
\* str::replace("kB", ""): every non-overlapping "kB", left to right
RemoveKB(s) ==
    IF Len(s) >= 2 /\ s[1] = "k" /\ s[2] = "B" THEN RemoveKB(SubSeq(s, 3, Len(s)))
    ELSE IF s = << >> THEN << >>
    ELSE << s[1] >> \o RemoveKB(Tail(s))

\* str::lines().nth(0): the text before the first newline; None for ""
FirstLine(s) ==
    IF s = << >> THEN [some |-> FALSE, val |-> << >>]
    ELSE [some |-> TRUE, val |-> Split(s, "\n")[1]]

----------------------------------------------------------------------------
(* Results. *)

Ok(v) == [kind |-> "Ok", val |-> v, err |-> ""]

Err(e) == [kind |-> "Err", val |-> << >>, err |-> e]

Panic(msg) == [kind |-> "Panic", val |-> << >>, err |-> msg]

----------------------------------------------------------------------------
(* Pool Inventory Reader: parse_hugepage. *)

\* HugePageSizeInfo::default()
DefaultHugePageSizeInfo == [size_kb |-> 0, free |-> 0, total |-> 0]

\* the closure parse_hugepage_value: read_to_string(p)?.trim().parse()
parse_hugepage_value(file) ==
    IF ~file.readable THEN [kind |-> "Err", val |-> 0, err |-> "Io"]
    ELSE LET r == parse_unsigned(Trim(file.text))
         IN  IF r.ok THEN [kind |-> "Ok", val |-> r.val, err |-> ""]
             ELSE [kind |-> "Err", val |-> 0, err |-> "InvalidData"]

\* entry.file_name().into_string().unwrap().split("-").nth(1).unwrap()
\*     .replace("kB", "").parse(), for a name that is valid Unicode
parse_size_kb(name) ==
    LET token == Nth(Split(name, "-"), 1)
    IN  IF ~token.some
        THEN [kind |-> "Panic", val |-> 0, err |-> "unwrap on None"]
        ELSE LET r == parse_unsigned(RemoveKB(token.val))
             IN  IF r.ok THEN [kind |-> "Ok", val |-> r.val, err |-> ""]
                 ELSE [kind |-> "Err", val |-> 0, err |-> "InvalidData"]

\* a wrong body of the loop: the two page counts stored in each other's field
hugepage_entry_swapped(entry) ==
    LET total == parse_hugepage_value(entry.nr_hugepages)
        free  == parse_hugepage_value(entry.free_hugepages)
        size  == parse_size_kb(entry.name)
        fail(r) == [kind |-> r.kind, val |-> DefaultHugePageSizeInfo, err |-> r.err]
    IN  IF ~entry.ok THEN [kind |-> "Err", val |-> DefaultHugePageSizeInfo, err |-> "Io"]
        ELSE IF total.kind # "Ok" THEN fail(total)
        ELSE IF free.kind # "Ok" THEN fail(free)
        ELSE IF size.kind # "Ok" THEN fail(size)
        ELSE [kind |-> "Ok",
              val  |-> [size_kb |-> size.val, free |-> total.val, total |-> free.val],
              err  |-> ""]

\* one iteration of the loop over the pool directory: entry?, then total,
\* free and size_kb in that order, each leaving the function on failure
hugepage_entry(entry) ==
    LET total == parse_hugepage_value(entry.nr_hugepages)
        free  == parse_hugepage_value(entry.free_hugepages)
        size  == parse_size_kb(entry.name)
        fail(r) == [kind |-> r.kind, val |-> DefaultHugePageSizeInfo, err |-> r.err]
    IN  IF ~entry.ok THEN [kind |-> "Err", val |-> DefaultHugePageSizeInfo, err |-> "Io"]
        ELSE IF total.kind # "Ok" THEN fail(total)
        ELSE IF free.kind # "Ok" THEN fail(free)
        ELSE IF size.kind # "Ok" THEN fail(size)
        ELSE [kind |-> "Ok",
              val  |-> [size_kb |-> size.val, free |-> free.val, total |-> total.val],
              err  |-> ""]

RECURSIVE hugepage_loop_partial(_, _)
\* a wrong loop: a failing entry ends the loop and what was built is returned
hugepage_loop_partial(entries, sizes) ==
    IF entries = << >> THEN Ok(sizes)
    ELSE LET r == hugepage_entry(Head(entries))
         IN  IF r.kind = "Ok"
             THEN hugepage_loop_partial(Tail(entries), Append(sizes, r.val))
             ELSE Ok(sizes)

RECURSIVE hugepage_loop(_, _)
\* for entry in info_dir { ...; sizes.push(info) }  Ok(sizes)
hugepage_loop(entries, sizes) ==
    IF entries = << >> THEN Ok(sizes)
    ELSE LET r == hugepage_entry(Head(entries))
         IN  IF r.kind = "Ok"
             THEN hugepage_loop(Tail(entries), Append(sizes, r.val))
             ELSE [kind |-> r.kind, val |-> << >>, err |-> r.err]

parse_hugepage(fs) ==
    IF ~fs.readable THEN Err("Io") ELSE hugepage_loop(fs.entries, << >>)

----------------------------------------------------------------------------
(* Huge-page filter and process aggregator: parse_process_info. *)

\* the threshold of the filter
HugeThreshold == 2024

\* a wrong filter predicate: strict comparison
IsHugeEntryStrict(entry) == entry.kernel_page_size_in_kb > HugeThreshold

\* |entry| entry.kernel_page_size_in_kb >= 2024
IsHugeEntry(entry) == entry.kernel_page_size_in_kb >= HugeThreshold

RECURSIVE FilterHuge(_)
\* smap_entries.into_iter().filter(..).collect()
FilterHuge(entries) ==
    IF entries = << >> THEN << >>
    ELSE IF IsHugeEntry(Head(entries))
         THEN << Head(entries) >> \o FilterHuge(Tail(entries))
         ELSE FilterHuge(Tail(entries))

\* uu_pmap::smaps_format_parser::parse_smap_entries: one SmapEntry per
\* region block of a well-formed text, an error for any other text
parse_smap_entries(contents) ==
    IF contents.wellformed
    THEN [ok |-> TRUE,
          val |-> [i \in 1..Len(contents.blocks) |->
                      [kernel_page_size_in_kb |-> contents.blocks[i].KernelPageSize,
                       private_hugetlb_in_kb  |-> contents.blocks[i].Private_Hugetlb,
                       shared_hugetlb_in_kb   |-> contents.blocks[i].Shared_Hugetlb]]]
    ELSE [ok |-> FALSE, val |-> << >>]

NoProcess == [some |-> FALSE, pid |-> 0, name |-> << >>, entries |-> << >>]

\* the name taken from the first line of status:
\* .lines().nth(0).unwrap_or_default().split(":").nth(1).unwrap_or_default().trim()
status_name(text) == Trim(Nth(Split(FirstLine(text).val, ":"), 1).val)

\* a wrong parse_process_info: the is_empty() test left out
parse_process_info_keep_empty(p) ==
    LET pid      == parse_unsigned(p.name)
        parsed   == parse_smap_entries(p.smaps.contents)
        filtered == FilterHuge(parsed.val)
    IN  IF ~pid.ok THEN NoProcess
        ELSE IF ~p.status.readable THEN NoProcess
        ELSE IF ~p.smaps.readable THEN NoProcess
        ELSE IF ~parsed.ok THEN NoProcess
        ELSE [some |-> TRUE, pid |-> pid.val, name |-> status_name(p.status.text),
              entries |-> filtered]

parse_process_info(p) ==
    LET pid      == parse_unsigned(p.name)
        parsed   == parse_smap_entries(p.smaps.contents)
        filtered == FilterHuge(parsed.val)
    IN  IF ~pid.ok THEN NoProcess
        ELSE IF ~p.status.readable THEN NoProcess
        ELSE IF ~p.smaps.readable THEN NoProcess
        ELSE IF ~parsed.ok THEN NoProcess
        ELSE IF filtered = << >> THEN NoProcess
        ELSE [some |-> TRUE, pid |-> pid.val, name |-> status_name(p.status.text),
              entries |-> filtered]

----------------------------------------------------------------------------
(* Report Renderer: Display for HugePageSizeInfo, construct_system_str,    *)
(* format_process_str, construct_str.                                      *)

\* a literal piece of a format string
Lit(s) == [k |-> "lit", lit |-> s, chars |-> << >>, n |-> 0, w |-> 0]

\* a literal argument padded to width w ({:<w})
PadLit(s, w) == [k |-> "lit", lit |-> s, chars |-> << >>, n |-> 0, w |-> w]

\* a number argument, padded to width w (0: no padding)
Num(n, w) == [k |-> "num", lit |-> "", chars |-> << >>, n |-> n, w |-> w]

\* a text argument, padded to width w
Txt(cs, w) == [k |-> "str", lit |-> "", chars |-> cs, n |-> 0, w |-> w]

\* text supplied by get_formatted_time(), header::uptime(), header::user()
Ext(s) == [k |-> "ext", lit |-> s, chars |-> << >>, n |-> 0, w |-> 0]

NL == Lit("\n")

\* match self.size_kb { 2048 => "2Mi", 1048576 => "1Gi", _ => panic!(..) }
size_str(size_kb) ==
    CASE size_kb = 2048    -> [kind |-> "Ok", val |-> "2Mi"]
      [] size_kb = 1048576 -> [kind |-> "Ok", val |-> "1Gi"]
      [] OTHER             -> [kind |-> "Panic", val |-> ""]

\* Display::fmt, reached through info.to_string()
to_string(info) ==
    LET label == size_str(info.size_kb)
    IN  IF label.kind = "Panic" THEN Panic("size_kb")
        ELSE Ok(<< Lit(label.val), Lit(" - "), Num(info.free, 0), Lit("/"),
                   Num(info.total, 0) >>)

\* "top - {time} {uptime}, {user}\n"
banner ==
    << Lit("top - "), Ext("time"), Lit(" "), Ext("uptime"), Lit(", "),
       Ext("user"), NL >>

\* a wrong separator choice: the last entry treated like the others
system_separator_always_comma(i, len) == << Lit(", ") >>

\* what follows entry i (counted from 0) of len: ", " before the last
\* entry, a newline after it
system_separator(i, len) == IF i < len - 1 THEN << Lit(", ") >> ELSE << NL >>

RECURSIVE system_loop(_, _, _)
\* for (i, info) in sys.iter().enumerate() { ... }
system_loop(sys, i, output) ==
    IF i >= Len(sys) THEN Ok(output)
    ELSE LET text == to_string(sys[i + 1])
         IN  IF text.kind = "Panic" THEN text
             ELSE system_loop(sys, i + 1,
                              output \o text.val \o system_separator(i, Len(sys)))

construct_system_str(sys) == system_loop(sys, 0, banner)

\* "{:<8} {:<12} {:<12} {:<12}\n" with "PID", "Private", "Shared", "Process"
process_header ==
    << PadLit("PID", 8), Lit(" "), PadLit("Private", 12), Lit(" "),
       PadLit("Shared", 12), Lit(" "), PadLit("Process", 12), NL >>

\* the row of one mapping of one process
process_row(process, smap_entry) ==
    << Num(process.pid, 8), Lit(" "), Num(smap_entry.private_hugetlb_in_kb, 12),
       Lit(" "), Num(smap_entry.shared_hugetlb_in_kb, 12), Lit(" "),
       Txt(process.name, 12), NL >>

RECURSIVE entry_rows(_, _)
\* for smap_entry in &process.entries { ... }
entry_rows(process, entries) ==
    IF entries = << >> THEN << >>
    ELSE process_row(process, Head(entries)) \o entry_rows(process, Tail(entries))

\* a wrong inner loop: one row per process, for its first mapping only
process_rows_first_only(process) ==
    process_row(process, Head(process.entries))

process_rows(process) == entry_rows(process, process.entries)

RECURSIVE all_process_rows(_)
\* for process in processes { ... }
all_process_rows(ps) ==
    IF ps = << >> THEN << >>
    ELSE process_rows(Head(ps)) \o all_process_rows(Tail(ps))

format_process_str(ps) == process_header \o all_process_rows(ps)

construct_str(sys, ps) ==
    LET system == construct_system_str(sys)
    IN  IF system.kind = "Panic" THEN system
        ELSE Ok(system.val \o format_process_str(ps))

----------------------------------------------------------------------------
(* The environment a run may find: bounded listings of the two            *)
(* pseudo-filesystems.                                                     *)

RECURSIVE SeqsUpTo(_, _)
\* the sequences over S of length at most n
SeqsUpTo(S, n) ==
    IF n = 0 THEN { << >> }
    ELSE LET shorter == SeqsUpTo(S, n - 1)
         IN  shorter \cup { Append(q, x) : q \in shorter, x \in S }

File(text) == [readable |-> TRUE, text |-> text]

Unreadable == [readable |-> FALSE, text |-> << >>]

DirEnt(name, nr, free) ==
    [ok |-> TRUE, name |-> name, nr_hugepages |-> nr, free_hugepages |-> free]

\* an entry whose read_dir item is an Err
BrokenDirEnt ==
    [ok |-> FALSE, name |-> << >>, nr_hugepages |-> Unreadable,
     free_hugepages |-> Unreadable]

Name2M == << "h", "u", "g", "e", "p", "a", "g", "e", "s", "-", "2", "0", "4", "8", "k", "B" >>

Name1G == << "h", "u", "g", "e", "p", "a", "g", "e", "s", "-", "1", "0", "4", "8", "5", "7", "6", "k", "B" >>

Name64k == << "h", "u", "g", "e", "p", "a", "g", "e", "s", "-", "6", "4", "k", "B" >>

\* page-count files holding a non-negative integer, some padded
ValidCounts == { << "1", "0", "0" >>, << "4", "0" >>, << " ", "7", "\n" >>, << "0" >> }

\* page-count files holding anything else
InvalidCounts == { << >>, << "a", "b", "c" >>, << "-", "1" >>, << "4", " ", "0" >> }

CountFiles == { File(t) : t \in ValidCounts \cup InvalidCounts } \cup { Unreadable }

NamePrefixes == { << "h", "u", "g", "e", "p", "a", "g", "e", "s" >>, << >>, << "h", "u", "g", "e", "-", "p", "a", "g", "e", "s" >> }

NameSeparators == { << "-" >>, << >> }

NameNumbers == { << "2", "0", "4", "8" >>, << "1", "0", "4", "8", "5", "7", "6" >>, << "6", "4" >>, << >>, << "x" >> }

NameSuffixes == { << "k", "B" >>, << >>, << "k", "B", "-", "1" >> }

\* directory names: the kernel's hugepages-<N>kB and malformed variants
PoolNames ==
    { p \o s \o n \o u : p \in NamePrefixes, s \in NameSeparators,
                         n \in NameNumbers, u \in NameSuffixes }

\* entries that pool listings of several directories are made of
PoolDirs ==
    { DirEnt(Name2M, File(<< "1", "0", "0" >>), File(<< "4", "0" >>)),
      DirEnt(Name1G, File(<< " ", "7", "\n" >>), File(<< "0" >>)),
      DirEnt(Name64k, File(<< "4", "0" >>), File(<< "1", "0", "0" >>)),
      DirEnt(<< "h", "u", "g", "e", "p", "a", "g", "e", "s", "2", "0", "4", "8", "k", "B" >>, File(<< "1", "0", "0" >>), File(<< "4", "0" >>)),
      DirEnt(Name2M, File(<< "a", "b", "c" >>), File(<< "4", "0" >>)),
      DirEnt(Name1G, File(<< "1", "0", "0" >>), Unreadable),
      BrokenDirEnt }

\* listings of one directory, its name and both files varied freely
SingleDirListings ==
    { << DirEnt(n, nr, free) >> : n \in PoolNames, nr \in CountFiles, free \in CountFiles }

Block(kps, private, shared) ==
    [KernelPageSize |-> kps, Private_Hugetlb |-> private, Shared_Hugetlb |-> shared]

\* region blocks of smaps: base pages, sizes around the threshold, huge pages
Blocks ==
    { Block(4, 0, 0), Block(2023, 2023, 0), Block(2024, 0, 2024),
      Block(2048, 4096, 0), Block(2048, 0, 2048), Block(1048576, 1048576, 0) }

Smaps(blocks) == [readable |-> TRUE, contents |-> [wellformed |-> TRUE, blocks |-> blocks]]

UnreadableSmaps == [readable |-> FALSE, contents |-> [wellformed |-> FALSE, blocks |-> << >>]]

\* a smaps text that parse_smap_entries rejects
MalformedSmaps == [readable |-> TRUE, contents |-> [wellformed |-> FALSE, blocks |-> << >>]]

ProcEnt(name, status, smaps) ==
    [ok |-> TRUE, name |-> name, status |-> status, smaps |-> smaps]

BrokenProcEnt ==
    [ok |-> FALSE, name |-> << >>, status |-> Unreadable, smaps |-> UnreadableSmaps]

StatusSh == File(<< "N", "a", "m", "e", ":", "\t", "s", "h", "\n", "U", "m", "a", "s", "k", ":", "\t", "0", "0", "2", "2", "\n" >>)

StatusDb == File(<< "N", "a", "m", "e", ":", "\t", "d", "b", "\n" >>)

\* status files: with a Name line, empty, without a colon, vanished
StatusFiles == { StatusSh, StatusDb, File(<< >>), File(<< "N", "a", "m", "e" >>), Unreadable }

\* entries that /proc listings of several entries are made of
ProcEnts ==
    { ProcEnt(<< "s", "e", "l", "f" >>, StatusSh, Smaps(<< Block(2048, 4096, 0) >>)),
      BrokenProcEnt,
      ProcEnt(<< "7" >>, Unreadable, Smaps(<< Block(2048, 4096, 0) >>)),
      ProcEnt(<< "8" >>, StatusSh, UnreadableSmaps),
      ProcEnt(<< "9" >>, StatusSh, MalformedSmaps),
      ProcEnt(<< "3" >>, StatusSh, Smaps(<< Block(4, 0, 0), Block(2023, 2023, 0) >>)),
      ProcEnt(<< "1" >>, StatusSh, Smaps(<< Block(2048, 4096, 0), Block(4, 0, 0) >>)),
      ProcEnt(<< "4", "2" >>, StatusDb,
              Smaps(<< Block(2048, 0, 2048), Block(4, 0, 0), Block(2024, 0, 2024) >>)) }

\* listings of one process, its smaps, status and name varied freely
SingleProcListings ==
    { << ProcEnt(n, st, sm) >> :
        n \in { << "1" >>, << "4", "2" >>, << "s", "e", "l", "f" >> },
        st \in StatusFiles,
        sm \in { Smaps(b) : b \in SeqsUpTo(Blocks, MaxEntries) }
               \cup { UnreadableSmaps, MalformedSmaps } }

Listing(entries) == [readable |-> TRUE, entries |-> entries]

\* read_dir fails
NoListing == [readable |-> FALSE, entries |-> << >>]

\* a /proc with two huge-page processes among others
UsualProc ==
    Listing(<< ProcEnt(<< "1" >>, StatusSh, Smaps(<< Block(2048, 4096, 0), Block(4, 0, 0) >>)),
               ProcEnt(<< "s", "e", "l", "f" >>, StatusSh, Smaps(<< >>)),
               ProcEnt(<< "4", "2" >>, StatusDb,
                       Smaps(<< Block(2048, 0, 2048), Block(2024, 0, 2024) >>)) >>)

\* a pool with the two sizes hugetop knows
UsualPool ==
    Listing(<< DirEnt(Name2M, File(<< "1", "0", "0" >>), File(<< "4", "0" >>)),
               DirEnt(Name1G, File(<< " ", "7", "\n" >>), File(<< "0" >>)) >>)

\* the pairs (pool, /proc) a run starts from: each side varied against a
\* few fixed choices of the other
Environments ==
    ( ({ Listing(d) : d \in SeqsUpTo(PoolDirs, MaxDirs) } \cup { NoListing })
        \X { UsualProc, NoListing, Listing(<< >>) } )
    \cup
    ( { UsualPool, Listing(<< >>), NoListing }
        \X ({ Listing(ps) : ps \in SeqsUpTo(ProcEnts, MaxProcs) } \cup { NoListing }) )
    \cup
    ( { Listing(d) : d \in SingleDirListings } \X { UsualProc } )
    \cup
    ( { UsualPool } \X { Listing(ps) : ps \in SingleProcListings } )

----------------------------------------------------------------------------
(* uumain. *)

NotRun == [kind |-> "NotRun", val |-> << >>, err |-> ""]

Init ==
    /\ \E env \in Environments :
          /\ hugepages_fs = env[1]
          /\ proc_fs = env[2]
    /\ pc = "start"
    /\ sys_info = NotRun
    /\ proc_iter = 0
    /\ processes = << >>
    /\ p_info = NotRun
    /\ stdout = << >>
    /\ stderr = << >>
    /\ exit_status = -1

\* match parse_hugepage() { ... }: the call
PoolRead ==
    /\ pc = "start"
    /\ sys_info' = parse_hugepage(hugepages_fs)
    /\ pc' = "pool_read"
    /\ UNCHANGED << hugepages_fs, proc_fs, proc_iter, processes, p_info,
                    stdout, stderr, exit_status >>

\* Err(e) => { eprintln!("hugetop: failed to read hugepage info: ..."); exit(1) }
PoolFailed ==
    /\ pc = "pool_read"
    /\ sys_info.kind = "Err"
    /\ stderr' = Append(stderr, [msg |-> "hugetop: failed to read hugepage info",
                                 cause |-> sys_info.err])
    /\ exit_status' = 1
    /\ pc' = "exited"
    /\ UNCHANGED << hugepages_fs, proc_fs, sys_info, proc_iter, processes,
                    p_info, stdout >>

\* a panic inside parse_hugepage unwinds through uumain: the runtime prints
\* the panic message and the process ends with status 101
PoolPanicked ==
    /\ pc = "pool_read"
    /\ sys_info.kind = "Panic"
    /\ stderr' = Append(stderr, [msg |-> "thread 'main' panicked", cause |-> sys_info.err])
    /\ exit_status' = 101
    /\ pc' = "exited"
    /\ UNCHANGED << hugepages_fs, proc_fs, sys_info, proc_iter, processes,
                    p_info, stdout >>

\* Ok(sys_info) => match parse_process_hugepages(): the function's first
\* statements, Vec::new() and fs::read_dir("/proc")?
ProcOpen ==
    /\ pc = "pool_read"
    /\ sys_info.kind = "Ok"
    /\ processes' = << >>
    /\ IF proc_fs.readable
       THEN /\ proc_iter' = 1
            /\ pc' = "proc_loop"
            /\ p_info' = p_info
       ELSE /\ proc_iter' = proc_iter
            /\ pc' = "proc_read"
            /\ p_info' = Err("Io")
    /\ UNCHANGED << hugepages_fs, proc_fs, sys_info, stdout, stderr, exit_status >>

\* a wrong loop body: a process without a report ends the enumeration
ProcEntryStrict ==
    /\ pc = "proc_loop"
    /\ proc_iter <= Len(proc_fs.entries)
    /\ LET entry == proc_fs.entries[proc_iter]
           info  == parse_process_info(entry)
       IN  IF ~entry.ok \/ ~info.some
           THEN /\ p_info' = Err("Io")
                /\ pc' = "proc_read"
                /\ UNCHANGED << proc_iter, processes >>
           ELSE /\ processes' =
                      Append(processes, [pid |-> info.pid, name |-> info.name,
                                         entries |-> info.entries])
                /\ proc_iter' = proc_iter + 1
                /\ UNCHANGED << p_info, pc >>
    /\ UNCHANGED << hugepages_fs, proc_fs, sys_info, stdout, stderr, exit_status >>

\* one iteration of the loop of parse_process_hugepages:
\* let entry = entry?; if let Some(info) = parse_process_info(&entry) { push }
ProcEntry ==
    /\ pc = "proc_loop"
    /\ proc_iter <= Len(proc_fs.entries)
    /\ LET entry == proc_fs.entries[proc_iter]
           info  == parse_process_info(entry)
       IN  IF ~entry.ok
           THEN /\ p_info' = Err("Io")
                /\ pc' = "proc_read"
                /\ UNCHANGED << proc_iter, processes >>
           ELSE /\ processes' =
                      IF info.some
                      THEN Append(processes, [pid |-> info.pid, name |-> info.name,
                                              entries |-> info.entries])
                      ELSE processes
                /\ proc_iter' = proc_iter + 1
                /\ UNCHANGED << p_info, pc >>
    /\ UNCHANGED << hugepages_fs, proc_fs, sys_info, stdout, stderr, exit_status >>

\* the loop is over: Ok(processes)
ProcEnd ==
    /\ pc = "proc_loop"
    /\ proc_iter > Len(proc_fs.entries)
    /\ p_info' = Ok(processes)
    /\ pc' = "proc_read"
    /\ UNCHANGED << hugepages_fs, proc_fs, sys_info, proc_iter, processes,
                    stdout, stderr, exit_status >>

\* a wrong error arm: what was gathered is printed before the exit
ProcFailedPrintsPartial ==
    /\ pc = "proc_read"
    /\ p_info.kind = "Err"
    /\ stdout' = Append(stdout, format_process_str(processes))
    /\ stderr' = Append(stderr, [msg |-> "hugetop: failed to read process hugepage info",
                                 cause |-> p_info.err])
    /\ exit_status' = 1
    /\ pc' = "exited"
    /\ UNCHANGED << hugepages_fs, proc_fs, sys_info, proc_iter, processes, p_info >>

\* Err(e) => { eprintln!("hugetop: failed to read process hugepage info: ..."); exit(1) }
ProcFailed ==
    /\ pc = "proc_read"
    /\ p_info.kind = "Err"
    /\ stderr' = Append(stderr, [msg |-> "hugetop: failed to read process hugepage info",
                                 cause |-> p_info.err])
    /\ exit_status' = 1
    /\ pc' = "exited"
    /\ UNCHANGED << hugepages_fs, proc_fs, sys_info, proc_iter, processes,
                    p_info, stdout >>

\* Ok(p_info) => print!("{}", construct_str(sys_info, &p_info)); Ok(())
\* construct_str is evaluated before anything is written; a panic in it
\* ends the process with status 101 and nothing on standard output
PrintReport ==
    /\ pc = "proc_read"
    /\ p_info.kind = "Ok"
    /\ LET text == construct_str(sys_info.val, p_info.val)
       IN  IF text.kind = "Panic"
           THEN /\ stderr' = Append(stderr, [msg |-> "thread 'main' panicked",
                                             cause |-> text.err])
                /\ exit_status' = 101
                /\ stdout' = stdout
           ELSE /\ stdout' = Append(stdout, text.val)
                /\ exit_status' = 0
                /\ stderr' = stderr
    /\ pc' = "exited"
    /\ UNCHANGED << hugepages_fs, proc_fs, sys_info, proc_iter, processes, p_info >>

Next ==
    \/ PoolRead
    \/ PoolFailed
    \/ PoolPanicked
    \/ ProcOpen
    \/ ProcEntry
    \/ ProcEnd
    \/ ProcFailed
    \/ PrintReport

Spec == Init /\ [][Next]_vars

----------------------------------------------------------------------------
(* Vocabulary of the properties, stated over the environment and not     *)
(* through the operators above.                                            *)

\* the /proc entries the enumeration has gone through
Examined == 1..(proc_iter - 1)

\* the mappings of a smaps text with a huge kernel page size
HugeBlocks(blocks) == { j \in 1..Len(blocks) : blocks[j].KernelPageSize >= 2024 }

\* a /proc entry that is a process with a readable status, a readable and
\* well-formed smaps and at least one huge mapping
Reportable(e) ==
    /\ e.ok
    /\ AllDigits(e.name)
    /\ e.status.readable
    /\ e.smaps.readable
    /\ e.smaps.contents.wellformed
    /\ HugeBlocks(e.smaps.contents.blocks) # { }

\* a /proc entry of a process that cannot be read or parsed
FailingProcess(e) ==
    /\ e.ok
    /\ AllDigits(e.name)
    /\ ~e.status.readable \/ ~e.smaps.readable \/ ~e.smaps.contents.wellformed

ReportableIn(I) == { i \in I : Reportable(proc_fs.entries[i]) }

\* the k-th smallest element of a set of numbers
KthOf(S, k) == CHOOSE i \in S : Cardinality({ j \in S : j <= i }) = k

AsSmapEntry(b) ==
    [kernel_page_size_in_kb |-> b.KernelPageSize,
     private_hugetlb_in_kb  |-> b.Private_Hugetlb,
     shared_hugetlb_in_kb   |-> b.Shared_Hugetlb]

\* out holds the huge mappings of blocks, each once, in the order of blocks
IsHugeSelection(out, blocks) ==
    /\ Len(out) = Cardinality(HugeBlocks(blocks))
    /\ \A m \in 1..Len(out) : out[m] = AsSmapEntry(blocks[KthOf(HugeBlocks(blocks), m)])

\* reports holds one report per reportable entry among I, in listing order
IsReportList(reports, I) ==
    /\ Len(reports) = Cardinality(ReportableIn(I))
    /\ \A k \in 1..Len(reports) :
          LET e == proc_fs.entries[KthOf(ReportableIn(I), k)]
          IN  /\ reports[k].pid = DecimalValue(e.name)
              /\ IsHugeSelection(reports[k].entries, e.smaps.contents.blocks)

----------------------------------------------------------------------------
(* C1: the entries of every report built by parse_process_info are exactly *)
(* the mappings of that process's smaps whose kernel page size is at least *)
(* 2024, in their order in the smaps, none dropped, added, repeated or     *)
(* moved.                                                                  *)
C1_FilterKeepsExactlyHugeInOrder ==
    /\ Len(processes) = Cardinality(ReportableIn(Examined))
    /\ \A k \in 1..Len(processes) :
          IsHugeSelection(processes[k].entries,
                          proc_fs.entries[KthOf(ReportableIn(Examined), k)].smaps.contents.blocks)

\* a report built from a smaps with mappings on both sides of the threshold,
\* two of them kept and one at exactly 2024
C1_Witness ==
    \E k \in 1..Len(processes) :
        /\ Len(processes[k].entries) >= 2
        /\ \E m \in 1..Len(processes[k].entries) :
              processes[k].entries[m].kernel_page_size_in_kb = 2024
        /\ Len(proc_fs.entries[KthOf(ReportableIn(Examined), k)].smaps.contents.blocks)
              > Len(processes[k].entries)

\* the pid fields of the rows of a rendered report
RowPids(text) == { text[i].n : i \in { j \in 1..Len(text) : text[j].k = "num" /\ text[j].w = 8 } }

(* C2: every report in the list being built and in the list returned by    *)
(* parse_process_hugepages has at least one entry; a process all of whose  *)
(* mappings are below the threshold, or that has no mapping, gets no       *)
(* report and no row of the output.                                        *)
C2_ReportsNeverEmpty ==
    /\ \A k \in 1..Len(processes) : processes[k].entries # << >>
    /\ p_info.kind = "Ok" => \A k \in 1..Len(p_info.val) : p_info.val[k].entries # << >>
    /\ Len(processes) = Cardinality(ReportableIn(Examined))
    /\ \A w \in 1..Len(stdout) :
          \A pid \in RowPids(stdout[w]) :
              \E i \in ReportableIn(Examined) : DecimalValue(proc_fs.entries[i].name) = pid

\* a readable process with mappings, all below the threshold, was examined,
\* another one was reported and the report was printed
C2_Witness ==
    /\ stdout # << >>
    /\ Len(processes) >= 1
    /\ \E i \in Examined :
          LET e == proc_fs.entries[i]
          IN  /\ e.ok /\ AllDigits(e.name) /\ e.status.readable
              /\ e.smaps.readable /\ e.smaps.contents.wellformed
              /\ e.smaps.contents.blocks # << >>
              /\ HugeBlocks(e.smaps.contents.blocks) = { }

\* the listing of /proc itself fails: read_dir, or one of its items
EnumerationFails == ~proc_fs.readable \/ \E i \in 1..Len(proc_fs.entries) : ~proc_fs.entries[i].ok

\* some pool entry has a size the renderer has no label for
UnlabelledSize == \E i \in 1..Len(sys_info.val) : sys_info.val[i].size_kb \notin { 2048, 1048576 }

(* C3: a process whose status or smaps cannot be read, or whose smaps does *)
(* not parse, is skipped and nothing else: parse_process_hugepages fails   *)
(* only when the listing of /proc fails, otherwise it returns Ok with the  *)
(* reports of all reportable processes in listing order; and a run never   *)
(* ends with a non-zero status on account of such a process.               *)
C3_PerProcessFailureOnlySkips ==
    /\ p_info.kind = "Err" => EnumerationFails
    /\ (p_info.kind # "NotRun" /\ ~EnumerationFails) =>
          /\ p_info.kind = "Ok"
          /\ IsReportList(p_info.val, 1..Len(proc_fs.entries))
    /\ IsReportList(processes, Examined)
    /\ exit_status \notin { -1, 0 } =>
          \/ sys_info.kind \in { "Err", "Panic" }
          \/ EnumerationFails
          \/ UnlabelledSize

\* a run that ended with status 0 and a report of a later process although
\* an earlier process could not be read or parsed
C3_Witness ==
    /\ pc = "exited"
    /\ exit_status = 0
    /\ \E i, j \in 1..Len(proc_fs.entries) :
          /\ i < j
          /\ FailingProcess(proc_fs.entries[i])
          /\ Reportable(proc_fs.entries[j])
    /\ Len(p_info.val) >= 1

PoolDiagnostic == "hugetop: failed to read hugepage info"

ProcessDiagnostic == "hugetop: failed to read process hugepage info"

(* C4: standard output is written at most once, and only after the pool    *)
(* read and then the enumeration of processes have both returned Ok; the   *)
(* enumeration starts only after the pool read returned Ok.  If the pool   *)
(* read returns an error, nothing is written, no process is read, and the  *)
(* run ends with status 1 and the diagnostic naming the pool; if the       *)
(* enumeration returns an error, nothing is written and the run ends with  *)
(* status 1 and the diagnostic naming the processes.                       *)
C4_OutputOnceAfterBothReads ==
    /\ Len(stdout) <= 1
    /\ stdout # << >> =>
          /\ sys_info.kind = "Ok"
          /\ p_info.kind = "Ok"
          /\ pc = "exited"
          /\ exit_status = 0
    /\ (proc_iter > 0 \/ processes # << >> \/ p_info.kind # "NotRun") => sys_info.kind = "Ok"
    /\ sys_info.kind = "Err" =>
          /\ stdout = << >>
          /\ proc_iter = 0 /\ processes = << >> /\ p_info.kind = "NotRun"
          /\ pc \in { "pool_read", "exited" }
          /\ pc = "exited" =>
                /\ exit_status = 1
                /\ Len(stderr) = 1
                /\ stderr[1].msg = PoolDiagnostic
    /\ p_info.kind = "Err" =>
          /\ stdout = << >>
          /\ pc \in { "proc_read", "exited" }
          /\ pc = "exited" =>
                /\ exit_status = 1
                /\ Len(stderr) = 1
                /\ stderr[1].msg = ProcessDiagnostic
    /\ exit_status = -1 <=> pc # "exited"

\* the enumeration failed after a report had been gathered, and the run ended
C4_Witness ==
    /\ pc = "exited"
    /\ p_info.kind = "Err"
    /\ Len(processes) >= 1
    /\ exit_status = 1

----------------------------------------------------------------------------
(* Vocabulary of the pool properties. *)

Dashes(name) == { i \in 1..Len(name) : name[i] = "-" }

\* <prefix>-<N>kB: one separator, then digits, then kB
WellFormedName(name) ==
    /\ Cardinality(Dashes(name)) = 1
    /\ LET d == CHOOSE i \in Dashes(name) : TRUE
       IN  /\ Len(name) >= d + 3
           /\ name[Len(name) - 1] = "k"
           /\ name[Len(name)] = "B"
           /\ AllDigits(SubSeq(name, d + 1, Len(name) - 2))

\* the N of a well-formed name
NameSize(name) ==
    DecimalValue(SubSeq(name, (CHOOSE i \in Dashes(name) : TRUE) + 1, Len(name) - 2))

\* the positions of the text that do not hold white space
Inked(text) == { i \in 1..Len(text) : text[i] \notin Whitespace }

\* a non-negative integer, possibly with white space around it
ValidCount(file) ==
    /\ file.readable
    /\ Inked(file.text) # { }
    /\ \A i \in 1..Len(file.text) :
          \/ file.text[i] \in Digits
          \/ /\ file.text[i] \in Whitespace
             /\ \/ \A j \in Inked(file.text) : i < j
                \/ \A j \in Inked(file.text) : i > j

\* the integer a valid count file holds
CountValue(file) ==
    LET ink == Inked(file.text)
        lo  == CHOOSE i \in ink : \A j \in ink : i <= j
        hi  == CHOOSE i \in ink : \A j \in ink : i >= j
    IN  DecimalValue(SubSeq(file.text, lo, hi))

ValidPoolDir(e) ==
    /\ e.ok
    /\ WellFormedName(e.name)
    /\ ValidCount(e.nr_hugepages)
    /\ ValidCount(e.free_hugepages)

PoolWasRead == pc # "start" /\ hugepages_fs.readable

BadCounts(e) == e.ok /\ (~ValidCount(e.nr_hugepages) \/ ~ValidCount(e.free_hugepages))

\* subdirectory i has a count file that is unreadable or does not hold a
\* non-negative integer, and the subdirectories before it are valid
FirstBadCountAt(i) ==
    /\ BadCounts(hugepages_fs.entries[i])
    /\ \A j \in 1..(i - 1) : ValidPoolDir(hugepages_fs.entries[j])

(* C6: if a pool subdirectory, at any position of the listing and after    *)
(* any number of valid ones, has a count file that is unreadable or does   *)
(* not hold a non-negative integer, parse_hugepage returns an error that   *)
(* carries none of the entries built for the earlier subdirectories; the   *)
(* run then writes nothing to standard output and ends with status 1.      *)
C6_PoolReadAllOrNothing ==
    (PoolWasRead /\ \E i \in 1..Len(hugepages_fs.entries) : FirstBadCountAt(i))
    => /\ sys_info.kind = "Err"
       /\ sys_info.val = << >>
       /\ stdout = << >>
       /\ pc = "exited" => exit_status = 1

\* the run ended after a pool read that had built an entry for a valid
\* first subdirectory and then met a bad count file in the second
C6_Witness ==
    /\ pc = "exited"
    /\ Len(hugepages_fs.entries) = 2
    /\ hugepages_fs.readable
    /\ FirstBadCountAt(2)
    /\ sys_info.kind = "Err"

\* a name without separator, or with one separator and something other
\* than <N>kB after it
LacksSizeToken(name) == Cardinality(Dashes(name)) <= 1 /\ ~WellFormedName(name)

(* C7: a pool subdirectory whose name lacks the size token, its count      *)
(* files being valid and the subdirectories before it valid, makes         *)
(* parse_hugepage return an error of kind InvalidData: no panic, no list.  *)
C7_BadNameIsDataFormatError ==
    (PoolWasRead /\
     \E i \in 1..Len(hugepages_fs.entries) :
        /\ \A j \in 1..(i - 1) : ValidPoolDir(hugepages_fs.entries[j])
        /\ hugepages_fs.entries[i].ok
        /\ ValidCount(hugepages_fs.entries[i].nr_hugepages)
        /\ ValidCount(hugepages_fs.entries[i].free_hugepages)
        /\ LacksSizeToken(hugepages_fs.entries[i].name))
    => /\ sys_info.kind = "Err"
       /\ sys_info.err = "InvalidData"

(* C8: rendering never fails: whatever the size_kb of the pool entries,    *)
(* once the pool read and the enumeration have returned Ok the report is   *)
(* rendered and written and the run ends with status 0.                    *)
C8_RenderingNeverFails ==
    (pc = "exited" /\ sys_info.kind = "Ok" /\ p_info.kind = "Ok")
    => /\ exit_status = 0
       /\ Len(stdout) = 1

----------------------------------------------------------------------------
(* Vocabulary of the rendering properties. *)

\* the lines of a rendered text: the tokens between newlines; a text that
\* ends with a newline has an empty last piece
TextLines(text) == Split(text, NL)

RECURSIVE RowsOf(_)
\* the number of mappings of a list of reports
RowsOf(ps) == IF ps = << >> THEN 0 ELSE Len(Head(ps).entries) + RowsOf(Tail(ps))

HeaderLine ==
    << PadLit("PID", 8), Lit(" "), PadLit("Private", 12), Lit(" "),
       PadLit("Shared", 12), Lit(" "), PadLit("Process", 12) >>

\* the line of mapping m of report k
RowLine(ps, k, m) ==
    << Num(ps[k].pid, 8), Lit(" "), Num(ps[k].entries[m].private_hugetlb_in_kb, 12),
       Lit(" "), Num(ps[k].entries[m].shared_hugetlb_in_kb, 12), Lit(" "),
       Txt(ps[k].name, 12) >>

\* lines is the header line, then the rows of ps grouped by process in the
\* order of ps and in mapping order within a process, then nothing
IsProcessTable(lines, ps) ==
    /\ Len(lines) = 1 + RowsOf(ps) + 1
    /\ lines[1] = HeaderLine
    /\ lines[Len(lines)] = << >>
    /\ \A k \in 1..Len(ps) :
          \A m \in 1..Len(ps[k].entries) :
              lines[1 + RowsOf(SubSeq(ps, 1, k - 1)) + m] = RowLine(ps, k, m)

\* the last n elements of a sequence
LastN(q, n) == SubSeq(q, Len(q) - n + 1, Len(q))

(* C9: format_process_str renders the header row and then one row per      *)
(* (process, mapping) pair and nothing else: as many rows as the reports   *)
(* have entries, grouped by process in input order and in mapping order    *)
(* within a process, each with the pid and name of its process and the     *)
(* private and shared values of its mapping; for no report, the header     *)
(* alone.  The printed report ends with exactly these lines.               *)
C9_OneRowPerMapping ==
    /\ IsProcessTable(TextLines(format_process_str(processes)), processes)
    /\ p_info.kind = "Ok" =>
          IsProcessTable(TextLines(format_process_str(p_info.val)), p_info.val)
    /\ \A w \in 1..Len(stdout) :
          /\ Len(TextLines(stdout[w])) >= RowsOf(p_info.val) + 2
          /\ IsProcessTable(LastN(TextLines(stdout[w]), RowsOf(p_info.val) + 2), p_info.val)

\* a report of two processes, one of them with two mappings, was printed
C9_Witness ==
    /\ stdout # << >>
    /\ Len(p_info.val) = 2
    /\ \E k \in 1..2 : Len(p_info.val[k].entries) = 2
    /\ p_info.val[1].pid # p_info.val[2].pid
    /\ p_info.val[1].name # p_info.val[2].name

BannerLine ==
    << Lit("top - "), Ext("time"), Lit(" "), Ext("uptime"), Lit(", "), Ext("user") >>

SizeLabel(size_kb) == IF size_kb = 2048 THEN "2Mi" ELSE "1Gi"

\* <label> - <free>/<total>
Summary(info) ==
    << Lit(SizeLabel(info.size_kb)), Lit(" - "), Num(info.free, 0), Lit("/"),
       Num(info.total, 0) >>

RECURSIVE SummaryList(_)
\* the summaries of the pool entries in order, ", " between two of them
SummaryList(sys) ==
    IF sys = << >> THEN << >>
    ELSE IF Len(sys) = 1 THEN Summary(sys[1])
    ELSE Summary(sys[1]) \o << Lit(", ") >> \o SummaryList(Tail(sys))

\* the claim as stated: the first line is the banner with the summaries
\* after it on the same line; for no pool entry, the banner alone, and the
\* header row next
C10_SummariesOnBannerLine ==
    \A w \in 1..Len(stdout) :
        LET lines == TextLines(stdout[w])
            list  == SummaryList(sys_info.val)
        IN  /\ Len(lines[1]) >= Len(BannerLine) + Len(list)
            /\ SubSeq(lines[1], 1, Len(BannerLine)) = BannerLine
            /\ LastN(lines[1], Len(list)) = list
            /\ sys_info.val = << >> => lines[1] = BannerLine /\ lines[2] = HeaderLine

(* C10 as amended: the first line of the output is the banner alone.  For  *)
(* a non-empty pool list whose sizes are all 2048 or 1048576 the second    *)
(* line is the list of the summaries of all pool entries, in input order,  *)
(* each once, separated by ", " and with nothing after the last, and the   *)
(* header row is the third line; for an empty pool list the header row is  *)
(* the second line.  With a pool entry of any other size the renderer      *)
(* panics and nothing is written.                                          *)
C10_SummariesOnSecondLine ==
    (pc = "exited" /\ sys_info.kind = "Ok" /\ p_info.kind = "Ok")
    => IF UnlabelledSize
       THEN stdout = << >> /\ exit_status = 101
       ELSE /\ Len(stdout) = 1
            /\ LET lines == TextLines(stdout[1])
               IN  /\ lines[1] = BannerLine
                   /\ IF sys_info.val = << >>
                      THEN lines[2] = HeaderLine
                      ELSE /\ lines[2] = SummaryList(sys_info.val)
                           /\ lines[3] = HeaderLine

\* a report with two pool entries was printed
C10_Witness ==
    /\ stdout # << >>
    /\ Len(sys_info.val) = 2
    /\ sys_info.val[1] = [size_kb |-> 2048, free |-> 40, total |-> 100]

====
